---- MODULE Spec2Model ----
(***************************************************************************)
(* A model of cleanup.py: the per-mount metadata index (an sqlite table    *)
(* keyed by path), the full scan, the time-boxed quick scan, the eviction  *)
(* pass and the usage-driven loop of process().                            *)
(*                                                                         *)
(* Paths are sequences of names, so os.path.join is Append and             *)
(* os.path.dirname drops the last name.  The file system is a function     *)
(* from paths to the attributes lstat reports.  The index is modelled      *)
(* twice: db is what the open connection sees inside its transaction,      *)
(* committed is what is durable on disk.                                   *)
(***************************************************************************)
EXTENDS Integers, Sequences, FiniteSets, TLC

VARIABLES
    fs,         \* path -> attributes of the live file system
    perm,       \* path -> "ok" | "locked" | "unreadable" | "hidden"
    db,         \* the index as seen by the open connection (path -> FileStat)
    committed,  \* the durable index
    cfg,        \* command line: mode (--scan or not), high, low, max, base usage
    pc,         \* position of the program
    used,       \* process(): last used-percent returned by df
    target,     \* _delete_files(): byte target of the pass
    cands,      \* rows of the SELECT cursor not yet iterated
    cur,        \* row handed to delete_file that passed the freshness check
    to_delete,  \* _delete_files(): paths whose record is to be deleted
    to_update,  \* _delete_files(): fresh stats whose record is to be replaced
    total,      \* _delete_files(): bytes accounted as freed
    before,     \* number_of_files() at the start of the pass
    removed,    \* process(): what the last delete_files returned
    added,      \* process(): what scan returned in this round (-1: not run)
    stack,      \* recursion stack of _scan / _quick_scan
    expired,    \* quick scan: time.time() > limit
    oldest,     \* _delete_files(): <<>> (None) or <<smallest atime removed>>
    youngest,   \* _delete_files(): <<>> (None) or <<largest atime removed>>
    ops,        \* unlink/rmdir calls made by the current eviction pass
    calls,      \* how often each pass was started (saturating)
    snap,       \* the durable index when the current pass started
    fs0,        \* the file system when the current pass started
    where,      \* the position at which the run was interrupted ("" if not)
    ext,        \* number of external mutations so far
    nuOld,      \* needs_update(): first argument
    nuNew,      \* needs_update(): second argument
    nuRes       \* needs_update(): <<>> before the call, <<result>> after it

vars == <<fs, perm, db, committed, cfg, pc, used, target, cands, cur,
          to_delete, to_update, total, before, removed, added, stack, expired,
          oldest, youngest, ops, calls, snap, fs0, where, ext, nuOld, nuNew, nuRes>>

----------------------------------------------------------------------------
(* Bounds of the model *)

\* external mutations that may interleave with one run
MaxExt == 1
\* the pass counters saturate here
MaxCalls == 3
\* timestamps drawn for the arguments of needs_update
MaxTime == 2

----------------------------------------------------------------------------
(* Paths *)

Root == <<"R">>
PA == <<"R", "a">>
PD == <<"R", "D">>
PF == <<"R", "D", "f">>
PG == <<"R", "D", "g">>

Entries == {PA, PD, PF, PG}

Paths == {Root} \cup Entries

\* os.path.dirname
dirname(p) == SubSeq(p, 1, Len(p) - 1)

\* os.path.join
join(p, name) == Append(p, name)

----------------------------------------------------------------------------
(* FileStat and needs_update *)

FileStat(path, isdir, atime, ctime, mtime, size) ==
    [path |-> path, isdir |-> isdir, atime |-> atime,
     ctime |-> ctime, mtime |-> mtime, size |-> size]

\* Python's None
None == [none |-> TRUE]

\* the final comparison looking at the times only
needs_update_nosize(oldstat, newstat) ==
    IF oldstat.isdir # newstat.isdir
    THEN TRUE
    ELSE <<oldstat.atime, oldstat.ctime, oldstat.mtime>>
            # <<newstat.atime, newstat.ctime, newstat.mtime>>

needs_update(oldstat, newstat) ==
    IF oldstat.isdir # newstat.isdir
    THEN TRUE
    ELSE IF oldstat.isdir
            /\ <<oldstat.mtime, oldstat.ctime>> # <<newstat.mtime, newstat.ctime>>
         THEN TRUE
         ELSE oldstat # newstat

----------------------------------------------------------------------------
(* The file system *)

NoFile == [exists |-> FALSE, isdir |-> FALSE, atime |-> 0, ctime |-> 0, mtime |-> 0, size |-> 0]

\* errno of os.lstat(p) ("OK" when it succeeds)
lstat_errno(f, pm, p) ==
    IF ~f[p].exists THEN "ENOENT"
    ELSE IF pm[p] = "hidden" THEN "EACCES"
    ELSE "OK"

\* stat_file: os.lstat wrapped so that every failure yields None
stat_file(f, pm, full) ==
    IF lstat_errno(f, pm, full) = "OK"
    THEN FileStat(full, f[full].isdir, f[full].atime, f[full].ctime,
                  f[full].mtime, f[full].size)
    ELSE None

Children(f, p) == {q \in Paths : Len(q) = Len(p) + 1 /\ dirname(q) = p /\ f[q].exists}

\* os.listdir raises unless the path is a readable directory
listdir_raises(f, pm, p) == ~f[p].exists \/ ~f[p].isdir \/ pm[p] = "unreadable"

\* os.listdir: the names in the directory
listdir(f, p) == {q[Len(q)] : q \in Children(f, p)}

\* errno of os.unlink(p) ("OK" when it succeeds)
unlink_errno(f, pm, p) ==
    IF ~f[p].exists THEN "ENOENT"
    ELSE IF pm[p] \in {"locked", "hidden"} THEN "EACCES"
    ELSE IF f[p].isdir THEN "EISDIR"
    ELSE "OK"

\* errno of os.rmdir(p) ("OK" when it succeeds)
rmdir_errno(f, pm, p) ==
    IF ~f[p].exists THEN "ENOENT"
    ELSE IF ~f[p].isdir THEN "ENOTDIR"
    ELSE IF pm[p] \in {"locked", "hidden"} THEN "EACCES"
    ELSE IF Children(f, p) # {} THEN "ENOTEMPTY"
    ELSE "OK"

\* the directory entry p is gone; its parent's mtime and ctime move on
remove_entry(f, p) ==
    [q \in Paths |->
        IF q = p THEN NoFile
        ELSE IF q = dirname(p) /\ f[q].exists
             THEN [f[q] EXCEPT !.mtime = @ + 1, !.ctime = @ + 1]
             ELSE f[q]]

RECURSIVE SumSizes(_, _)
SumSizes(f, S) ==
    IF S = {} THEN 0
    ELSE LET p == CHOOSE q \in S : TRUE
         IN  (IF f[p].exists THEN f[p].size ELSE 0) + SumSizes(f, S \ {p})

\* size of the mount: f_blocks * f_bsize
TotalBytes == 1000

\* df(): used-percent of the mount, rounded as int(x * 100 + 0.5)
df_used(f, base) ==
    (2 * 100 * (base + SumSizes(f, Entries)) + TotalBytes) \div (2 * TotalBytes)

\* os.statvfs(name) raises when the path is gone
df_raises(f) == ~f[Root].exists

----------------------------------------------------------------------------
(* The index *)

\* INSERT OR REPLACE of one record
upsert(d, s) == [p \in (DOMAIN d) \cup {s.path} |-> IF p = s.path THEN s ELSE d[p]]

\* executemany(INSERT_OR_REPLACE, S) for records of distinct paths
RECURSIVE upsert_many(_, _)
upsert_many(d, S) ==
    IF S = {} THEN d
    ELSE LET s == CHOOSE x \in S : TRUE
         IN  upsert_many(upsert(d, s), S \ {s})

\* executemany(DELETE, P)
delete_many(d, P) == [p \in (DOMAIN d) \ P |-> d[p]]

\* SELECT COUNT(*) FROM files
number_of_files(d) == Cardinality(DOMAIN d)

Rows(d) == {d[p] : p \in DOMAIN d}

Min(a, b) == IF a < b THEN a ELSE b

\* SELECT * FROM files ORDER BY atime LIMIT maximum: the possible row sets
\* (rows of equal atime come in any order)
SelectSets(d, maximum) ==
    {S \in SUBSET Rows(d) :
        /\ Cardinality(S) = Min(maximum, number_of_files(d))
        /\ \A r \in S : \A q \in Rows(d) \ S : r.atime <= q.atime}

\* the cursor without ORDER BY atime
NextRows_unordered(S) == S

\* the rows the cursor may yield next
NextRows(S) == {r \in S : \A q \in S : r.atime <= q.atime}

\* a connection in autocommit mode: every statement is durable at once
Durable_autocommit(c, d) == d

\* sqlite3.connect(base) with the default isolation level: a statement that
\* changes the table runs inside a transaction, so the durable index c stays
\* as it is when the connection's view becomes d
Durable(c, d) == c

\* SELECT * FROM files WHERE path=?
lookup(d, p) == IF p \in DOMAIN d THEN d[p] ELSE None

----------------------------------------------------------------------------
(* Initial states: a tree under Root, an index that may be stale, a command line *)

IsDir(p) == p \in {Root, PD}

Size(p) == CASE p = PA -> 100 [] p = PF -> 200 [] p = PG -> 300 [] OTHER -> 50

\* What a path looks like when the program starts:
\*   fresh      on disk, record equal to the live attributes
\*   unindexed  on disk, no record
\*   modified   on disk, written (mtime, ctime) since the record was taken
\*   accessed   on disk, only read (atime) since the record was taken
\*   vanished   record, but no longer on disk
\*   absent     neither
Kinds == {"fresh", "unindexed", "modified", "accessed", "vanished", "absent"}

Gone == {"vanished", "absent"}

Indexed == {"fresh", "modified", "accessed", "vanished"}

KindChoices ==
    {K \in [Entries -> Kinds] :
        /\ K[PA] # "accessed"
        /\ K[PG] \in {"fresh", "unindexed", "absent"}
        /\ K[PD] \in Gone => (K[PF] \in Gone /\ K[PG] \in Gone)}

\* access times recorded in the index: files oldest first, the directory
\* before its files, and all equal
AtimeOrders ==
    { [p \in Entries |-> CASE p = PA -> 1 [] p = PF -> 2 [] p = PG -> 3 [] OTHER -> 4],
      [p \in Entries |-> CASE p = PD -> 1 [] p = PF -> 2 [] p = PA -> 3 [] OTHER -> 4],
      [p \in Entries |-> 1] }

\* the command line: --scan or process(), the number of times the path is
\* given, --high, --low, --max; base is the part of the mount's usage that
\* lies outside the tree
Configs ==
    { [mode |-> "scan",    npaths |-> 2, base |-> 0,   high |-> 70, low |-> 70, max |-> 10000],
      [mode |-> "process", npaths |-> 1, base |-> 0,   high |-> 70, low |-> 70, max |-> 10000],
      [mode |-> "process", npaths |-> 1, base |-> 300, high |-> 70, low |-> 70, max |-> 10000],
      [mode |-> "process", npaths |-> 1, base |-> 300, high |-> 40, low |-> 30, max |-> 2] }

AllOk == [p \in Paths |-> "ok"]

\* permissions: everything accessible, or one entry of an otherwise
\* up-to-date tree that cannot be removed, listed or stat'ed
PermChoices(K) ==
    {AllOk} \cup
    (IF \A p \in Entries : K[p] \in {"fresh", "unindexed"}
     THEN {[AllOk EXCEPT ![PA] = "locked"], [AllOk EXCEPT ![PF] = "locked"],
           [AllOk EXCEPT ![PD] = "unreadable"], [AllOk EXCEPT ![PF] = "hidden"]}
     ELSE {})

InitAttr(k, p, rank) ==
    IF k \in Gone THEN NoFile
    ELSE [exists |-> TRUE, isdir |-> IsDir(p),
          atime |-> IF k = "accessed" THEN rank + 4 ELSE rank,
          ctime |-> IF k = "modified" THEN 2 ELSE 1,
          mtime |-> IF k = "modified" THEN 2 ELSE 1,
          size |-> Size(p)]

InitRecord(p, rank) == FileStat(p, IsDir(p), rank, 1, 1, Size(p))

InitFs(K, O) ==
    [p \in Paths |-> IF p = Root
                     THEN [exists |-> TRUE, isdir |-> TRUE, atime |-> 0,
                           ctime |-> 1, mtime |-> 1, size |-> 0]
                     ELSE InitAttr(K[p], p, O[p])]

InitDb(K, O) == [p \in {q \in Entries : K[q] \in Indexed} |-> InitRecord(p, O[p])]

NoFs == [p \in Paths |-> NoFile]

EmptyDb == [p \in {} |-> None]

InitWith(K, O, C, P) ==
    /\ fs = InitFs(K, O)
    /\ perm = P
    /\ db = InitDb(K, O)
    /\ committed = InitDb(K, O)
    /\ snap = InitDb(K, O)
    /\ fs0 = InitFs(K, O)
    /\ where = ""
    /\ cfg = C
    /\ pc = "start"
    /\ used = 0
    /\ target = 0
    /\ cands = {}
    /\ cur = None
    /\ to_delete = {}
    /\ to_update = {}
    /\ total = 0
    /\ before = 0
    /\ removed = 0
    /\ added = -1
    /\ stack = <<>>
    /\ expired = FALSE
    /\ oldest = <<>>
    /\ youngest = <<>>
    /\ ops = {}
    /\ calls = [delete |-> 0, scan |-> 0, quick |-> 0]
    /\ ext = 0
    /\ nuOld = None
    /\ nuNew = None
    /\ nuRes = <<>>

Init ==
    \E K \in KindChoices : \E O \in AtimeOrders : \E C \in Configs :
        \E P \in PermChoices(K) : InitWith(K, O, C, P)

----------------------------------------------------------------------------
(* process(): measuring and the reclaiming loop *)

Bump(n) == IF n < MaxCalls THEN n + 1 ELSE n

\* an exception leaves the "with closing(conn)" block: the connection is
\* closed without commit and the exception reaches the caller
Raise ==
    /\ pc' = "raised"
    /\ where' = pc
    /\ db' = committed

passVars == <<target, cands, cur, to_delete, to_update, total, before, oldest, youngest, ops>>

nuVars == <<nuOld, nuNew, nuRes>>

histVars == <<calls, snap, fs0>>

\* the comparison of process() inverted
AfterDf_inverted(u) == IF u > cfg.high THEN "quick_begin" ELSE "loop"

\* process(): "if used > high:" enters the loop, "else: quick_scan(path)"
AfterDf(u) == IF u > cfg.high THEN "loop" ELSE "quick_begin"

\* process() running scan after every eviction
AfterDelete_scan(n) == "scan_begin"

\* process(): "if delete_files(...) == 0:" runs scan, otherwise df comes next
AfterDelete(n) == IF n = 0 THEN "scan_begin" ELSE "measure"

\* process() without the break after a scan that added nothing
AfterScan_nobreak(n) ==
    IF cfg.mode = "scan"
    THEN (IF calls.scan < cfg.npaths THEN "scan_begin" ELSE "done")
    ELSE "measure"

\* the caller of scan(): the top-level loop takes the next path argument;
\* process() does "if scan(path) == 0: break", otherwise df comes next
AfterScan(n) ==
    IF cfg.mode = "scan"
    THEN (IF calls.scan < cfg.npaths THEN "scan_begin" ELSE "done")
    ELSE (IF n = 0 THEN "done" ELSE "measure")

\* the top-level loop with --scan: scan(p) for each p in args.path
MainScan ==
    /\ pc = "start"
    /\ cfg.mode = "scan"
    /\ pc' = "scan_begin"
    /\ UNCHANGED <<fs, perm, db, committed, cfg, used, passVars, removed, added,
                   stack, expired, histVars, where, ext, nuVars>>

\* process(): used, total = df(path); if used > high ... else quick_scan(path)
ProcessStart ==
    /\ pc = "start"
    /\ cfg.mode = "process"
    /\ IF df_raises(fs)
       THEN Raise /\ UNCHANGED used
       ELSE /\ used' = df_used(fs, cfg.base)
            /\ pc' = AfterDf(used')
            /\ UNCHANGED <<db, where>>
    /\ UNCHANGED <<fs, perm, committed, cfg, passVars, removed, added, stack,
                   expired, histVars, ext, nuVars>>

\* while used > low: delete_files(path, total * (used - low) / 100, max)
LoopTest ==
    /\ pc = "loop"
    /\ IF used > cfg.low
       THEN /\ target' = (TotalBytes * (used - cfg.low)) \div 100
            /\ pc' = "del_begin"
       ELSE /\ pc' = "done"
            /\ UNCHANGED target
    /\ UNCHANGED <<fs, perm, db, committed, cfg, used, cands, cur, to_delete,
                   to_update, total, before, oldest, youngest, ops, removed,
                   added, stack, expired, histVars, where, ext, nuVars>>

\* used, total = df(path) at the end of a round
Measure ==
    /\ pc = "measure"
    /\ IF df_raises(fs)
       THEN Raise /\ UNCHANGED used
       ELSE /\ used' = df_used(fs, cfg.base)
            /\ pc' = "loop"
            /\ UNCHANGED <<db, where>>
    /\ UNCHANGED <<fs, perm, committed, cfg, passVars, removed, added, stack,
                   expired, histVars, ext, nuVars>>

----------------------------------------------------------------------------
(* delete_files, _delete_files and delete_file *)

\* the bookkeeping without "total += row.size"
Count_nosize(row) ==
    /\ to_delete' = to_delete \cup {row.path}
    /\ total' = total
    /\ oldest' = IF oldest = <<>> THEN <<row.atime>>
                 ELSE <<Min(oldest[1], row.atime)>>
    /\ youngest' = IF oldest = <<>> THEN <<row.atime>>
                   ELSE <<IF youngest[1] > row.atime THEN youngest[1] ELSE row.atime>>
    /\ UNCHANGED to_update

\* the bookkeeping of _delete_files after delete_file returned None for row
Count(row) ==
    /\ to_delete' = to_delete \cup {row.path}
    /\ total' = total + row.size
    /\ oldest' = IF oldest = <<>> THEN <<row.atime>>
                 ELSE <<Min(oldest[1], row.atime)>>
    /\ youngest' = IF oldest = <<>> THEN <<row.atime>>
                   ELSE <<IF youngest[1] > row.atime THEN youngest[1] ELSE row.atime>>
    /\ UNCHANGED to_update

\* the bookkeeping of _delete_files after delete_file returned a fresh stat
Refresh(s) ==
    /\ to_update' = to_update \cup {s}
    /\ UNCHANGED <<to_delete, total, oldest, youngest>>

\* "if total >= target: break", or the cursor is exhausted
LoopEnds(tot, rest) == tot >= target \/ rest = {}

Op(op, path, by, res) == [op |-> op, path |-> path, by |-> by, res |-> res]

\* delete_files opens the index; _delete_files counts it and runs the SELECT
DeleteBegin ==
    /\ pc = "del_begin"
    /\ before' = number_of_files(db)
    /\ \E S \in SelectSets(db, cfg.max) :
          /\ cands' = S
          /\ pc' = IF S = {} THEN "del_apply" ELSE "del_iter"
    /\ to_delete' = {}
    /\ to_update' = {}
    /\ total' = 0
    /\ oldest' = <<>>
    /\ youngest' = <<>>
    /\ ops' = {}
    /\ cur' = None
    /\ added' = -1
    /\ snap' = committed
    /\ fs0' = fs
    /\ calls' = [calls EXCEPT !.delete = Bump(@)]
    /\ UNCHANGED <<fs, perm, db, committed, cfg, used, target, removed, stack,
                   expired, where, ext, nuVars>>

\* the next row of the cursor; delete_file up to its decision to remove:
\* newstat = stat_file(oldstat.path), None -> gone, needs_update -> changed
DeleteIter ==
    /\ pc = "del_iter"
    /\ \E row \in NextRows(cands) :
          LET newstat == stat_file(fs, perm, row.path)
              rest == cands \ {row}
          IN  /\ cands' = rest
              /\ ops' = ops \cup {Op("lstat", row.path, row.path,
                                     lstat_errno(fs, perm, row.path))}
              /\ IF newstat = None
                 THEN /\ Count(row)
                      /\ pc' = IF LoopEnds(total', rest) THEN "del_apply" ELSE "del_iter"
                      /\ UNCHANGED cur
                 ELSE IF needs_update(row, newstat)
                 THEN /\ Refresh(newstat)
                      /\ pc' = IF LoopEnds(total, rest) THEN "del_apply" ELSE "del_iter"
                      /\ UNCHANGED cur
                 ELSE /\ cur' = row
                      /\ pc' = "del_remove"
                      /\ UNCHANGED <<to_delete, to_update, total, oldest, youngest>>
    /\ UNCHANGED <<fs, perm, db, committed, cfg, used, target, before, removed,
                   added, stack, expired, histVars, where, ext, nuVars>>

\* the try block of delete_file for a directory: os.rmdir(oldstat.path)
RemoveDir(row) ==
    LET e == rmdir_errno(fs, perm, row.path)
    IN  /\ fs' = IF e = "OK" THEN remove_entry(fs, row.path) ELSE fs
        /\ ops' = ops \cup {Op("rmdir", row.path, row.path, e)}

\* the try block of delete_file for a file: os.unlink(oldstat.path), then
\* os.rmdir(os.path.dirname(oldstat.path)) with every failure ignored
RemoveFile(row) ==
    LET e == unlink_errno(fs, perm, row.path)
        f1 == remove_entry(fs, row.path)
        parent == dirname(row.path)
        e2 == rmdir_errno(f1, perm, parent)
    IN  IF e = "OK"
        THEN /\ fs' = IF e2 = "OK" THEN remove_entry(f1, parent) ELSE f1
             /\ ops' = ops \cup {Op("unlink", row.path, row.path, e),
                                 Op("rmdir", parent, row.path, e2)}
        ELSE /\ fs' = fs
             /\ ops' = ops \cup {Op("unlink", row.path, row.path, e)}

\* delete_file from its try block on: every error is swallowed or logged and
\* the function returns None
DeleteRemove ==
    /\ pc = "del_remove"
    /\ IF cur.isdir THEN RemoveDir(cur) ELSE RemoveFile(cur)
    /\ Count(cur)
    /\ pc' = IF LoopEnds(total', cands) THEN "del_apply" ELSE "del_iter"
    /\ cur' = None
    /\ UNCHANGED <<perm, db, committed, cfg, used, target, cands, before,
                   removed, added, stack, expired, histVars, where, ext, nuVars>>

\* executemany(INSERT_OR_REPLACE, to_update); executemany(DELETE, to_delete);
\* after = number_of_files(cursor); return before - after, ...
DeleteApply ==
    /\ pc = "del_apply"
    /\ db' = delete_many(upsert_many(db, to_update), to_delete)
    /\ committed' = Durable(committed, db')
    /\ removed' = before - number_of_files(db')
    /\ pc' = "del_commit"
    /\ UNCHANGED <<fs, perm, cfg, used, passVars, added, stack, expired,
                   histVars, where, ext, nuVars>>

\* conn.commit(); return count; back in process():
\* if delete_files(...) == 0: scan(path) ... used, total = df(path)
DeleteCommit ==
    /\ pc = "del_commit"
    /\ committed' = db
    /\ pc' = AfterDelete(removed)
    /\ UNCHANGED <<fs, perm, db, cfg, used, passVars, removed, added, stack,
                   expired, histVars, where, ext, nuVars>>

----------------------------------------------------------------------------
(* scan and _scan *)

\* one activation of _scan / _quick_scan: the directory, the names of its
\* listing not yet visited, the records collected in files, and the stat of
\* the subdirectory about to be entered
Frame(path, names) == [path |-> path, todo |-> names, files |-> {}, pend |-> None]

Top == stack[Len(stack)]

Pop == SubSeq(stack, 1, Len(stack) - 1)

SetTop(fr) == [stack EXCEPT ![Len(stack)] = fr]

\* len(files) >= 10000: flush before appending
FlushLimit == 10000

\* scan() returning the number of records instead of the difference
Added_nodelta(d, b) == number_of_files(d)

\* scan() returning before - after, as _delete_files does
Added_reversed(d, b) == b - number_of_files(d)

\* scan(): "return after - before"
Added(d, b) == number_of_files(d) - b

\* scan(): before = number_of_files(cursor); _scan(os.path.realpath(path), cursor)
ScanBegin ==
    /\ pc = "scan_begin"
    /\ before' = number_of_files(db)
    /\ snap' = committed
    /\ fs0' = fs
    /\ calls' = [calls EXCEPT !.scan = Bump(@)]
    /\ IF listdir_raises(fs, perm, Root)
       THEN Raise /\ UNCHANGED stack
       ELSE /\ stack' = <<Frame(Root, listdir(fs, Root))>>
            /\ pc' = "scan_walk"
            /\ UNCHANGED <<db, where>>
    /\ UNCHANGED <<fs, perm, committed, cfg, used, target, cands, cur, to_delete,
                   to_update, total, oldest, youngest, ops, removed, added,
                   expired, ext, nuVars>>

\* one iteration of the for loop of _scan, up to the recursive call; when the
\* listing is exhausted, flush(files) and return
ScanWalk ==
    /\ pc = "scan_walk"
    /\ IF Top.todo = {}
       THEN /\ db' = upsert_many(db, Top.files)
            /\ stack' = Pop
            /\ pc' = IF Len(stack) = 1 THEN "scan_end" ELSE "scan_walk"
       ELSE \E filename \in Top.todo :
              LET full == join(Top.path, filename)
                  s == stat_file(fs, perm, full)
                  rest == Top.todo \ {filename}
                  full_batch == Cardinality(Top.files) >= FlushLimit
              IN  IF s = None
                  THEN /\ stack' = SetTop([Top EXCEPT !.todo = rest])
                       /\ UNCHANGED <<db, pc>>
                  ELSE /\ db' = IF full_batch THEN upsert_many(db, Top.files) ELSE db
                       /\ stack' = SetTop([Top EXCEPT
                                      !.todo = rest,
                                      !.files = (IF full_batch THEN {} ELSE @) \cup {s},
                                      !.pend = IF s.isdir THEN s ELSE None])
                       /\ pc' = IF s.isdir THEN "scan_enter" ELSE "scan_walk"
    /\ committed' = Durable(committed, db')
    /\ UNCHANGED <<fs, perm, cfg, used, passVars, removed, added, expired,
                   histVars, where, ext, nuVars>>

\* the recursive call _scan(full, cursor) starts with os.listdir(full)
ScanEnter ==
    /\ pc = "scan_enter"
    /\ IF listdir_raises(fs, perm, Top.pend.path)
       THEN Raise /\ UNCHANGED stack
       ELSE /\ stack' = Append(SetTop([Top EXCEPT !.pend = None]),
                               Frame(Top.pend.path, listdir(fs, Top.pend.path)))
            /\ pc' = "scan_walk"
            /\ UNCHANGED <<db, where>>
    /\ UNCHANGED <<fs, perm, committed, cfg, used, passVars, removed, added,
                   expired, histVars, ext, nuVars>>

\* after = number_of_files(cursor); conn.commit(); return after - before
ScanEnd ==
    /\ pc = "scan_end"
    /\ added' = Added(db, before)
    /\ committed' = db
    /\ pc' = AfterScan(added')
    /\ UNCHANGED <<fs, perm, db, cfg, used, passVars, removed, stack, expired,
                   histVars, where, ext, nuVars>>

----------------------------------------------------------------------------
(* quick_scan and _quick_scan *)

\* quick_scan(): now = time.time(); _quick_scan(realpath(path), cursor, now + 40)
QuickBegin ==
    /\ pc = "quick_begin"
    /\ snap' = committed
    /\ fs0' = fs
    /\ calls' = [calls EXCEPT !.quick = Bump(@)]
    /\ expired' = FALSE
    /\ IF listdir_raises(fs, perm, Root)
       THEN Raise /\ UNCHANGED stack
       ELSE /\ stack' = <<Frame(Root, listdir(fs, Root))>>
            /\ pc' = "quick_walk"
            /\ UNCHANGED <<db, where>>
    /\ UNCHANGED <<fs, perm, committed, cfg, used, passVars, removed, added,
                   ext, nuVars>>

\* the wall clock passes the limit
Expire ==
    /\ pc \in {"quick_walk", "quick_enter"}
    /\ ~expired
    /\ expired' = TRUE
    /\ UNCHANGED <<fs, perm, db, committed, cfg, pc, used, passVars, removed,
                   added, stack, histVars, where, ext, nuVars>>

\* the running _quick_scan returns; its caller (if any) goes on after the
\* recursive call with cursor.execute(INSERT_OR_REPLACE, newstat)
QuickReturn ==
    IF Len(stack) = 1
    THEN /\ stack' = <<>>
         /\ pc' = "quick_end"
         /\ UNCHANGED db
    ELSE LET caller == stack[Len(stack) - 1]
         IN  /\ db' = upsert(db, caller.pend)
             /\ stack' = [Pop EXCEPT ![Len(stack) - 1] = [caller EXCEPT !.pend = None]]
             /\ pc' = "quick_walk"

\* the test of the stored record inverted: "if needs_update(...): return"
Unchanged_inverted(oldstat, newstat) ==
    oldstat # None /\ needs_update(oldstat, newstat)

\* "for row in cursor: if not needs_update(oldstat, newstat): return": there
\* is a stored record and the fresh stat does not differ from it
Unchanged(oldstat, newstat) ==
    oldstat # None /\ ~needs_update(oldstat, newstat)

\* the loop without the check of the clock
TimeUp_never(e) == FALSE

\* "if time.time() > limit: return", made before each entry is stat'ed
TimeUp(e) == e

\* one iteration of the for loop of _quick_scan, up to the recursive call
QuickWalk ==
    /\ pc = "quick_walk"
    /\ IF Top.todo = {}
       THEN QuickReturn
       ELSE \E filename \in Top.todo :
              LET full == join(Top.path, filename)
                  newstat == stat_file(fs, perm, full)
                  oldstat == lookup(db, full)
                  rest == Top.todo \ {filename}
              IN  IF TimeUp(expired)
                  THEN QuickReturn
                  ELSE IF newstat = None
                  THEN /\ stack' = SetTop([Top EXCEPT !.todo = rest])
                       /\ UNCHANGED <<db, pc>>
                  ELSE IF Unchanged(oldstat, newstat)
                  THEN QuickReturn
                  ELSE IF newstat.isdir
                  THEN /\ stack' = SetTop([Top EXCEPT !.todo = rest, !.pend = newstat])
                       /\ pc' = "quick_enter"
                       /\ UNCHANGED db
                  ELSE /\ db' = upsert(db, newstat)
                       /\ stack' = SetTop([Top EXCEPT !.todo = rest])
                       /\ UNCHANGED pc
    /\ committed' = Durable(committed, db')
    /\ UNCHANGED <<fs, perm, cfg, used, passVars, removed, added, expired,
                   histVars, where, ext, nuVars>>

\* the recursive call _quick_scan(full, cursor, limit) starts with os.listdir(full)
QuickEnter ==
    /\ pc = "quick_enter"
    /\ IF listdir_raises(fs, perm, Top.pend.path)
       THEN Raise /\ UNCHANGED stack
       ELSE /\ stack' = Append(stack, Frame(Top.pend.path, listdir(fs, Top.pend.path)))
            /\ pc' = "quick_walk"
            /\ UNCHANGED <<db, where>>
    /\ UNCHANGED <<fs, perm, committed, cfg, used, passVars, removed, added,
                   expired, histVars, ext, nuVars>>

\* conn.commit() at the end of quick_scan; process() returns
QuickEnd ==
    /\ pc = "quick_end"
    /\ committed' = db
    /\ pc' = "done"
    /\ UNCHANGED <<fs, perm, db, cfg, used, passVars, removed, added, stack,
                   expired, histVars, where, ext, nuVars>>

----------------------------------------------------------------------------
(* The environment *)

Running == pc \notin {"start", "done", "raised", "crashed"}

\* the process dies (kill, power loss): the open transaction is lost
Crash ==
    /\ Running
    /\ pc' = "crashed"
    /\ where' = pc
    /\ db' = committed
    /\ UNCHANGED <<fs, perm, committed, cfg, used, passVars, removed, added,
                   stack, expired, histVars, ext, nuVars>>

progVars == <<db, committed, cfg, pc, used, passVars, removed, added, stack,
              expired, histVars, where, nuVars>>

\* another process reads an entry: its atime moves on
ExtTouch ==
    /\ Running /\ ext < MaxExt
    /\ \E p \in Entries :
          /\ fs[p].exists
          /\ fs' = [fs EXCEPT ![p].atime = @ + 1]
    /\ ext' = ext + 1
    /\ UNCHANGED perm
    /\ UNCHANGED progVars

\* another process rewrites a file: its mtime and ctime move on
ExtWrite ==
    /\ Running /\ ext < MaxExt
    /\ \E p \in Entries :
          /\ fs[p].exists /\ ~fs[p].isdir
          /\ fs' = [fs EXCEPT ![p].mtime = @ + 1, ![p].ctime = @ + 1]
    /\ ext' = ext + 1
    /\ UNCHANGED perm
    /\ UNCHANGED progVars

\* another process removes a file, or moves a directory away with all that
\* is below it
ExtRemove ==
    /\ Running /\ ext < MaxExt
    /\ \E p \in Entries :
          /\ fs[p].exists
          /\ fs' = [q \in Paths |->
                      IF Len(q) > Len(p) /\ SubSeq(q, 1, Len(p)) = p
                      THEN NoFile
                      ELSE remove_entry(fs, p)[q]]
    /\ ext' = ext + 1
    /\ UNCHANGED perm
    /\ UNCHANGED progVars

\* another process takes the read permission of a directory away
ExtChmod ==
    /\ Running /\ ext < MaxExt
    /\ \E p \in Entries :
          /\ fs[p].exists /\ fs[p].isdir /\ perm[p] = "ok"
          /\ perm' = [perm EXCEPT ![p] = "unreadable"]
          /\ fs' = [fs EXCEPT ![p].ctime = @ + 1]
    /\ ext' = ext + 1
    /\ UNCHANGED progVars

----------------------------------------------------------------------------
(* needs_update on its own *)

\* the records of one path that the arguments of needs_update are drawn from
StatDomain ==
    {FileStat(PD, d, a, c, m, s) :
        d \in BOOLEAN, a \in 1..MaxTime, c \in 1..MaxTime, m \in 1..MaxTime, s \in {0, 50}}

InitNU ==
    /\ nuOld \in StatDomain
    /\ nuNew \in StatDomain
    /\ nuRes = <<>>
    /\ fs = NoFs
    /\ perm = AllOk
    /\ db = EmptyDb
    /\ committed = EmptyDb
    /\ snap = EmptyDb
    /\ fs0 = NoFs
    /\ where = ""
    /\ cfg = [mode |-> "none", npaths |-> 0, base |-> 0, high |-> 0, low |-> 0, max |-> 0]
    /\ pc = "needs_update"
    /\ used = 0
    /\ target = 0
    /\ cands = {}
    /\ cur = None
    /\ to_delete = {}
    /\ to_update = {}
    /\ total = 0
    /\ before = 0
    /\ removed = 0
    /\ added = -1
    /\ stack = <<>>
    /\ expired = FALSE
    /\ oldest = <<>>
    /\ youngest = <<>>
    /\ ops = {}
    /\ calls = [delete |-> 0, scan |-> 0, quick |-> 0]
    /\ ext = 0

\* needs_update(oldstat, newstat) is called
NeedsUpdateCall ==
    /\ pc = "needs_update"
    /\ nuRes = <<>>
    /\ nuRes' = <<needs_update(nuOld, nuNew)>>
    /\ UNCHANGED <<fs, perm, db, committed, cfg, pc, used, passVars, removed,
                   added, stack, expired, histVars, where, ext, nuOld, nuNew>>

----------------------------------------------------------------------------
(* Specifications *)

Program ==
    \/ MainScan
    \/ ProcessStart
    \/ LoopTest
    \/ Measure
    \/ DeleteBegin
    \/ DeleteIter
    \/ DeleteRemove
    \/ DeleteApply
    \/ DeleteCommit
    \/ ScanBegin
    \/ ScanWalk
    \/ ScanEnter
    \/ ScanEnd
    \/ QuickBegin
    \/ QuickWalk
    \/ QuickEnter
    \/ QuickEnd
    \/ Expire

\* one invocation on a tree nobody else touches meanwhile; it may be killed
Next == Program \/ Crash

Spec == Init /\ [][Next]_vars

\* one invocation on an up-to-date index while other processes use the tree
InitRace ==
    \E K \in {k \in KindChoices : k[PA] = "fresh" /\ k[PD] = "fresh" /\ k[PF] = "fresh"
                                  /\ k[PG] \in {"fresh", "absent"}} :
        \E O \in AtimeOrders : \E C \in Configs : InitWith(K, O, C, AllOk)

NextRace == Program \/ Crash \/ ExtTouch \/ ExtWrite \/ ExtRemove \/ ExtChmod

SpecRace == InitRace /\ [][NextRace]_vars

\* one invocation that nobody kills and nobody interferes with: the
\* interpreter always executes the next statement of the program
SpecLive == Init /\ [][Program]_vars /\ WF_vars(Program)

\* needs_update applied to every pair of records of StatDomain
SpecNU == InitNU /\ [][NeedsUpdateCall]_vars

----------------------------------------------------------------------------
(* Properties *)

RECURSIVE SumRecorded(_, _)
\* the sum of the sizes that the records of index d give for the paths P
SumRecorded(d, P) ==
    IF P = {} THEN 0
    ELSE LET p == CHOOSE q \in P : TRUE
         IN  d[p].size + SumRecorded(d, P \ {p})

Removal == {"unlink", "rmdir"}

\* _delete_files has applied its batch and is about to return
PassApplied == pc = "del_commit"

\* C1: a candidate that exists and whose fresh lstat differs from its record
\* (delete_file returned the new stat) is not unlinked and not rmdir'ed in the
\* pass, is not counted, adds nothing to the freed total, and the index holds
\* the fresh attributes after the pass.
C1_ChangedEntryIsKept ==
    PassApplied =>
        \A s \in to_update :
            /\ \A o \in ops : (o.op \in Removal /\ o.path = s.path) => o.res # "OK"
            /\ s.path \notin to_delete
            /\ total = SumRecorded(snap, to_delete)
            /\ s.path \in DOMAIN db /\ db[s.path] = s

\* what C1 gets right: the changed candidate's own delete_file step removes
\* nothing, and the record is refreshed and not counted
C1_OwnStepKeepsEntry ==
    PassApplied =>
        \A s \in to_update :
            /\ \A o \in ops : (o.op \in Removal /\ o.by = s.path) => FALSE
            /\ s.path \notin to_delete
            /\ total = SumRecorded(snap, to_delete)
            /\ s.path \in DOMAIN db /\ db[s.path] = s

Deletable(f, pm, row) ==
    IF row.isdir THEN rmdir_errno(f, pm, row.path) = "OK"
    ELSE unlink_errno(f, pm, row.path) = "OK"

\* the premise of C2, taken when the pass started
C2_Pre ==
    /\ \A p \in DOMAIN snap :
          /\ stat_file(fs0, perm, p) # None
          /\ ~needs_update(snap[p], stat_file(fs0, perm, p))
          /\ Deletable(fs0, perm, snap[p])
    /\ cfg.max >= number_of_files(snap)
    /\ 0 < target
    /\ target <= SumRecorded(snap, DOMAIN snap)

\* C2: with every indexed entry on disk, unchanged and deletable, max at least
\* the number of entries and 0 < target <= sum of sizes, the removed set is the
\* shortest prefix of the atime order whose sizes reach the target, the
\* overshoot is smaller than the last removed size, and every later entry is
\* untouched on disk and in the index.
C2_TargetConvergence ==
    (PassApplied /\ C2_Pre) =>
        /\ total = SumRecorded(snap, to_delete)
        /\ total >= target
        /\ removed = Cardinality(to_delete)
        /\ to_update = {}
        /\ \A p \in to_delete : \A q \in (DOMAIN snap) \ to_delete :
              snap[p].atime <= snap[q].atime
        /\ \E l \in to_delete :
              /\ \A p \in to_delete : snap[p].atime <= snap[l].atime
              /\ total - snap[l].size < target
        /\ \A p \in to_delete : ~fs[p].exists /\ p \notin DOMAIN db
        /\ \A q \in (DOMAIN snap) \ to_delete :
              fs[q] = fs0[q] /\ q \in DOMAIN db /\ db[q] = snap[q]

\* the example of the specification: sizes 100, 200, 300 in ascending atime
\* order and target 250; the two oldest are removed, 300 bytes are freed
C2_Witness ==
    /\ PassApplied /\ C2_Pre
    /\ DOMAIN snap = {PA, PF, PG}
    /\ snap[PA].atime < snap[PF].atime /\ snap[PF].atime < snap[PG].atime
    /\ target = 250
    /\ to_delete = {PA, PF}
    /\ total = 300
    /\ fs[PG].exists

\* C3: a candidate whose own unlink/rmdir failed with an error other than
\* ENOENT or ENOTEMPTY keeps its record, is not counted and stays on disk.
C3_FailedDeletionLeavesEntry ==
    PassApplied =>
        \A o \in ops :
            (o.op \in Removal /\ o.by = o.path /\ o.res \notin {"OK", "ENOENT", "ENOTEMPTY"})
            => /\ o.path \notin to_delete
               /\ o.path \in DOMAIN db /\ db[o.path] = snap[o.path]
               /\ fs[o.path] = fs0[o.path]

\* C4: for two directory records of one path with equal mtime, ctime and size,
\* needs_update is false even when atime differs.
C4_DirectoryReadIsNoChange ==
    (/\ nuRes # <<>>
     /\ nuOld.isdir /\ nuNew.isdir
     /\ nuOld.mtime = nuNew.mtime /\ nuOld.ctime = nuNew.ctime
     /\ nuOld.size = nuNew.size)
    => nuRes = <<FALSE>>

\* every record the eviction round looked at was found changed, and it looked
\* at all of them
AllChanged ==
    /\ to_delete = {}
    /\ to_update # {}
    /\ {s.path : s \in to_update} = DOMAIN snap

\* C5: in process(), when usage is above low, the eviction round found every
\* indexed entry changed (delete_files returned 0) and the following scan
\* returned 0, process has returned: no exception, no further round.
C5_NoProgressTerminates ==
    (/\ cfg.mode = "process"
     /\ used > cfg.low
     /\ AllChanged
     /\ removed = 0
     /\ added = 0)
    => pc = "done" /\ where = ""

C5_Witness ==
    /\ cfg.mode = "process"
    /\ used > cfg.low
    /\ AllChanged
    /\ removed = 0
    /\ added = 0
    /\ pc = "done"
    /\ calls.delete = 1

DeletePcs == {"del_begin", "del_iter", "del_remove", "del_apply", "del_commit"}

\* C6: a candidate whose lstat failed because the path is gone is counted as
\* removed, its recorded size is in the freed total, its record is deleted
\* when the batch is applied, no unlink or rmdir is attempted for it, and the
\* pass never raises.
C6_VanishedIsCounted ==
    /\ PassApplied =>
          \A o \in ops :
              (o.op = "lstat" /\ o.res = "ENOENT")
              => /\ o.path \in to_delete
                 /\ removed = Cardinality(to_delete)
                 /\ total = SumRecorded(snap, to_delete)
                 /\ o.path \notin DOMAIN db
                 /\ ~\E r \in ops : r.op \in Removal /\ r.by = o.path
    /\ pc = "raised" => where \notin DeletePcs

C6_Witness ==
    /\ PassApplied
    /\ \E o \in ops : o.op = "lstat" /\ o.res = "ENOENT" /\ snap[o.path].size > 0
    /\ \E o \in ops : o.op = "lstat" /\ o.res = "OK"

QuickPcs == {"quick_begin", "quick_walk", "quick_enter", "quick_end"}

\* the first df of process() found used <= high
IdleBranch ==
    /\ cfg.mode = "process"
    /\ pc # "start" /\ where # "start"
    /\ calls.delete = 0
    /\ used <= cfg.high

\* C7: when the measured used-percent is <= high, process runs quick_scan once
\* and nothing else: no unlink or rmdir, no record deleted, no delete_files,
\* no full scan.
C7_IdleMaintenance ==
    IdleBranch =>
        /\ pc \in QuickPcs \cup {"done", "raised", "crashed"}
        /\ calls.scan = 0
        /\ calls.quick <= 1
        /\ pc = "done" => calls.quick = 1
        /\ ops = {}
        /\ fs = fs0
        /\ DOMAIN snap \subseteq DOMAIN db
        /\ DOMAIN snap \subseteq DOMAIN committed

C7_Witness ==
    /\ IdleBranch
    /\ pc = "done"
    /\ calls.quick = 1
    /\ committed # snap

\* C8: no scan, quick scan or eviction pass propagates an exception because
\* of one entry; a directory that is gone or unreadable when it is listed is
\* skipped.
C8_EntryFailureIsAbsorbed ==
    pc = "raised" => where \notin {"scan_enter", "quick_enter"} \cup DeletePcs

\* C9: the second of two scans in a row of an unchanged tree returns 0 and
\* leaves the set of indexed paths as the first scan left it.
C9_ScanIdempotent ==
    (cfg.mode = "scan" /\ pc = "done" /\ calls.scan = 2)
    => /\ added = 0
       /\ DOMAIN committed = DOMAIN snap

C9_Witness ==
    /\ cfg.mode = "scan" /\ pc = "done" /\ calls.scan = 2
    /\ added = 0
    /\ DOMAIN committed = Entries

\* the positions inside a pass, from its first statement to its commit
InPass ==
    {"del_iter", "del_remove", "del_apply", "del_commit",
     "scan_walk", "scan_enter", "scan_end",
     "quick_walk", "quick_enter", "quick_end"}

\* the run ended inside a pass before the commit
Interrupted ==
    /\ pc \in {"crashed", "raised"}
    /\ \/ where \in InPass
       \/ pc = "raised" /\ where \in {"scan_begin", "quick_begin"}

\* C10: the durable index changes only in the commit that ends a pass and is
\* then the connection's view; inside a pass and after an interruption it is
\* the index from before the pass; the eviction pass changes its view of the
\* index only after the candidate loop.
C10_AtomicCommit ==
    /\ [][committed' # committed
          => (pc \in {"del_commit", "scan_end", "quick_end"} /\ committed' = db)]_vars
    /\ [](pc \in InPass => committed = snap)
    /\ [](Interrupted => (committed = snap /\ db = snap))
    /\ [](pc \in {"del_iter", "del_remove"} => db = snap)

C10_Witness ==
    /\ pc = "crashed"
    /\ where = "del_commit"
    /\ to_delete # {} /\ to_update # {}
    /\ committed = snap

\* the frames of the walk below the running one keep their unvisited names
KeepsTodo ==
    \A i \in 1..Len(stack') : i <= Len(stack) /\ stack'[i].todo = stack[i].todo

\* every record of the connection's view stays; the only record that may be
\* rewritten is the one of the directory the walk returns from
KeepsRecords ==
    \A p \in DOMAIN db :
        /\ p \in DOMAIN db'
        /\ db'[p] # db[p] => (Len(stack) > 1 /\ p = Top.path)

\* C11: once the clock is past the limit when _quick_scan is about to take its
\* next entry, every level of the walk returns without a further lstat and
\* without entering a directory, every record upserted so far stays in the
\* connection's view, and quick_scan commits that view and returns.
C11_TimeBox ==
    /\ [][(expired /\ pc = "quick_walk" /\ pc' # "crashed")
          => /\ pc' \in {"quick_walk", "quick_end"}
             /\ Len(stack') = Len(stack) - 1
             /\ KeepsTodo
             /\ KeepsRecords]_vars
    /\ [][(expired /\ pc = "quick_end" /\ pc' # "crashed")
          => (pc' = "done" /\ committed' = db /\ where' = "")]_vars

\* the limit passed inside R/D after records were upserted: the walk was
\* abandoned with an entry left unseen, and what was upserted is durable
C11_Witness ==
    /\ pc = "done" /\ expired
    /\ perm = AllOk
    /\ snap = EmptyDb
    /\ PF \in DOMAIN committed /\ PD \in DOMAIN committed
    /\ fs[PA].exists /\ PA \notin DOMAIN committed
    /\ fs[PG].exists /\ PG \notin DOMAIN committed

\* C12: process enters the loop when the first used-percent is above high;
\* a round starts while the latest used-percent is above low, with target
\* TotalBytes * (used - low) / 100; scan runs only after an eviction that
\* removed nothing; df follows every round that does not end the loop; and
\* process returns from the loop only with used <= low or after a round in
\* which eviction removed nothing and scan added nothing.
C12_LoopProtocol ==
    [][(cfg.mode = "process" /\ pc' \notin {"crashed", "raised"})
       => /\ pc = "start" => (pc' = "loop" <=> used' > cfg.high)
          /\ pc = "loop" =>
                /\ used = df_used(fs, cfg.base)
                /\ IF used > cfg.low
                   THEN pc' = "del_begin" /\ 100 * target' = TotalBytes * (used - cfg.low)
                   ELSE pc' = "done"
          /\ pc = "del_commit" => pc' = (IF removed = 0 THEN "scan_begin" ELSE "measure")
          /\ (pc' = "scan_begin" /\ pc # "scan_begin") => (pc = "del_commit" /\ removed = 0)
          /\ pc = "scan_end" => pc' = (IF added' = 0 THEN "done" ELSE "measure")
          /\ pc = "measure" => (pc' = "loop" /\ used' = df_used(fs, cfg.base))
          /\ (pc' = "done" /\ pc # "done") =>
                \/ pc = "loop" /\ used <= cfg.low
                \/ pc = "scan_end" /\ removed = 0 /\ added' = 0
                \/ pc = "quick_end" /\ calls.delete = 0]_vars

\* a first round that removed nothing, the scan that found entries, a second
\* round that removed some, and the exit with used <= low
C12_Witness ==
    /\ cfg.mode = "process" /\ pc = "done"
    /\ calls.delete = 2 /\ calls.scan = 1
    /\ snap # EmptyDb /\ removed > 0
    /\ used <= cfg.low

\* scan() has returned and nothing ran since: snap is the index from before
\* that scan
ScanReturned ==
    /\ added # -1
    /\ pc \in {"scan_begin", "measure", "loop", "del_begin", "done"}

RECURSIVE Walked(_, _, _)
\* the walk of _scan reaches p: every directory above it, up to the root, was
\* stat'ed and listed
Walked(f, pm, p) ==
    /\ f[p].exists
    /\ \/ dirname(p) = Root
       \/ /\ Walked(f, pm, dirname(p))
          /\ stat_file(f, pm, dirname(p)) # None
          /\ f[dirname(p)].isdir

\* the paths the walk stat'ed successfully
Stated(f, pm) == {p \in Entries : Walked(f, pm, p) /\ stat_file(f, pm, p) # None}

C14_RemovalIsRevalidated ==
    \A o \in ops :
        (o.op \in Removal /\ o.res = "OK")
        => \E l \in ops : l.op = "lstat" /\ l.by = o.by /\ l.path = o.path /\ l.res = "OK"

\* C15: a directory candidate whose rmdir failed with ENOTEMPTY and which is
\* still on disk when the pass returns is not counted as removed, its recorded
\* size is not in the freed bytes, and it keeps its index record.
C15_NonEmptyDirectoryIsKept ==
    PassApplied =>
        \A o \in ops :
            (o.op = "rmdir" /\ o.by = o.path /\ o.res = "ENOTEMPTY" /\ fs[o.path].exists)
            => /\ o.path \notin to_delete
               /\ removed = Cardinality(to_delete \ {o.path})
               /\ total = SumRecorded(snap, to_delete \ {o.path})
               /\ o.path \in DOMAIN db /\ db[o.path] = snap[o.path]

\* the activation that called the running _quick_scan
Caller == stack[Len(stack) - 1]

\* what the running _quick_scan does with the entry called name
QuickEntryRule(name) ==
    LET full == join(Top.path, name)
        newstat == stat_file(fs, perm, full)
        stored == full \in DOMAIN db
    IN  IF newstat = None
        THEN stack' = SetTop([Top EXCEPT !.todo = @ \ {name}]) /\ db' = db
        ELSE IF stored /\ ~needs_update(db[full], newstat)
        THEN /\ Len(stack') = Len(stack) - 1
             /\ KeepsTodo
             /\ pc' = (IF Len(stack) = 1 THEN "quick_end" ELSE "quick_walk")
             /\ db' = (IF Len(stack) = 1 THEN db ELSE upsert(db, Caller.pend))
             /\ db'[full] = db[full]
        ELSE IF newstat.isdir
        THEN /\ pc' = "quick_enter"
             /\ stack' = SetTop([Top EXCEPT !.todo = @ \ {name}, !.pend = newstat])
             /\ db' = db
        ELSE /\ pc' = "quick_walk"
             /\ stack' = SetTop([Top EXCEPT !.todo = @ \ {name}])
             /\ db' = upsert(db, newstat)

\* C16: before the limit, each step of _quick_scan treats one entry of the
\* listing: an entry equal to its stored record makes the activation return
\* at once (no descent, no later sibling touched at any level, its record
\* left as it is) and the caller upserts the enclosing directory; a new or
\* changed file is upserted as observed; a new or changed directory is
\* entered, and upserted as observed when that activation returns.
C16_Pruning ==
    /\ [][(pc = "quick_walk" /\ ~expired /\ Top.todo # {} /\ stack' # stack
           /\ pc' # "crashed")
          => \E name \in Top.todo : QuickEntryRule(name)]_vars
    /\ [][(pc = "quick_enter" /\ pc' = "quick_walk")
          => stack' = Append(stack, Frame(Top.pend.path, listdir(fs, Top.pend.path)))]_vars
    /\ [][(pc = "quick_walk" /\ Len(stack) > 1 /\ Len(stack') < Len(stack))
          => /\ Caller.pend = stat_file(fs, perm, Top.path)
             /\ db' = upsert(db, Caller.pend)]_vars

\* a quick scan that ran to its end before the limit, recorded what it found
\* changed, and left an entry stale behind an unchanged one
C16_Witness ==
    /\ pc = "done" /\ cfg.mode = "process" /\ calls.quick = 1
    /\ ~expired /\ perm = AllOk
    /\ committed # snap
    /\ PD \in DOMAIN snap /\ committed[PD] # snap[PD]
    /\ \E p \in Entries :
          fs[p].exists /\ (p \notin DOMAIN committed \/ committed[p] # stat_file(fs, perm, p))

\* C17: needs_update is true when isdir differs; for two records of one path
\* that are both not directories it is true exactly when atime, ctime, mtime
\* or size differs; and it is false for a record compared with itself.
C17_FreshnessRule ==
    nuRes # <<>> =>
        /\ nuOld.isdir # nuNew.isdir => nuRes = <<TRUE>>
        /\ (~nuOld.isdir /\ ~nuNew.isdir) =>
              (nuRes = <<TRUE>> <=> \/ nuOld.atime # nuNew.atime
                                    \/ nuOld.ctime # nuNew.ctime
                                    \/ nuOld.mtime # nuNew.mtime
                                    \/ nuOld.size # nuNew.size)
        /\ nuOld = nuNew => nuRes = <<FALSE>>

\* two records of a file that differ in size only
C17_Witness ==
    /\ nuRes = <<TRUE>>
    /\ ~nuOld.isdir /\ ~nuNew.isdir
    /\ nuOld.atime = nuNew.atime /\ nuOld.ctime = nuNew.ctime /\ nuOld.mtime = nuNew.mtime
    /\ nuOld.size # nuNew.size

\* C18: with nobody else touching the tree, every run of the program comes to
\* an end: it returns or an exception ends it.
C18_ProcessTerminates == <>(pc \in {"done", "raised"})

\* C19: every unlink or rmdir of the run that removed something is of a path
\* strictly below the root, and the root directory itself stays on disk.
C19_DeletionsBelowRoot ==
    /\ \A o \in ops :
          (o.op \in Removal /\ o.res = "OK")
          => (Len(o.path) > Len(Root) /\ SubSeq(o.path, 1, Len(Root)) = Root)
    /\ fs[Root].exists

\* C20: while other processes write to the tree, whenever delete_file removes
\* its candidate from disk, the attributes the candidate has at that moment
\* are those of its index record.
C20_NoStaleDeletion ==
    [][(/\ pc = "del_remove" /\ pc' \in {"del_iter", "del_apply"}
        /\ fs[cur.path].exists /\ ~fs'[cur.path].exists)
       => /\ stat_file(fs, perm, cur.path) # None
          /\ ~needs_update(cur, stat_file(fs, perm, cur.path))]_vars

====
